---- MODULE Spec2Model ----
(***************************************************************************)
(* Model of ElfObject (pcsx2/Elfheader.cpp): an owned byte buffer `data`,  *)
(* the format flag isPSXElf, the two header views proghead / secthead      *)
(* (pointers into data), the two load operations and the accessors.        *)
(*                                                                         *)
(* A u32 is kept as a pair <<hi, lo>> of 16-bit halves, so that the full   *)
(* 32-bit range and its wrap-around are representable.  Buffer offsets are *)
(* 0-based as in the C++ code; data[i+1] is the byte at offset i.          *)
(***************************************************************************)
EXTENDS Integers, Sequences, FiniteSets, TLC

\* ------------------------------------------------------------ bounds
\* largest e_phnum / e_shnum written into a sample image
MaxPhNum == 2
MaxShNum == 2

\* ------------------------------------------------------------ fixed sizes
ElfHeaderSize == 52
ElfPhrSize == 32
ElfShrSize == 40
PsxHeaderSize == 2048
MaxElfSize == 268435455

Half == 256 * 256
NULL == [off |-> -1, stale |-> FALSE]

\* ------------------------------------------------------------ u32 arithmetic
U32(hi, lo) == <<hi, lo>>
Zero32 == U32(0, 0)
Ones32 == U32(65535, 65535)

\* u32 + u32 in a u32 (wraps modulo 2^32)
AddU32(a, b) ==
    LET lo == a[2] + b[2]
        hi == a[1] + b[1] + (lo \div Half)
    IN  U32(hi % Half, lo % Half)

LeU32(a, b) == a[1] < b[1] \/ (a[1] = b[1] /\ a[2] <= b[2])
LtU32(a, b) == a[1] < b[1] \/ (a[1] = b[1] /\ a[2] < b[2])

\* a u32 below 2^30 as a number; every modelled buffer is far shorter
Small(a) == a[1] < 16384
ToNat(a) == a[1] * Half + a[2]

\* (u32 + size_t) <= size_t, evaluated in 64 bits: the sum never wraps
FitsIn(off, recsize, size) == Small(off) /\ ToNat(off) + recsize <= size

RECURSIVE XorNat(_, _)
XorNat(a, b) ==
    IF a = 0 THEN b
    ELSE IF b = 0 THEN a
    ELSE ((a + b) % 2) + 2 * XorNat(a \div 2, b \div 2)

XorU32(a, b) == U32(XorNat(a[1], b[1]), XorNat(a[2], b[2]))

\* ------------------------------------------------------------ typed reads
\* little-endian decode of the bytes at offset off of buf (all in bounds)
DecU16(buf, off) == buf[off + 1] + 256 * buf[off + 2]
DecU32(buf, off) == U32(DecU16(buf, off + 2), DecU16(buf, off))

\* A read through a reinterpret_cast pointer.  Inside the buffer it decodes
\* the bytes; outside it the behaviour is undefined and g stands for
\* whatever the memory there holds.
RdU16(buf, off, g) == IF off + 2 <= Len(buf) THEN DecU16(buf, off) ELSE g[2]
RdU32(buf, off, g) == IF off + 4 <= Len(buf) THEN DecU32(buf, off) ELSE g

\* ELF_HEADER fields (GetHeader() overlays the struct on data.data())
e_entry(buf, g) == RdU32(buf, 24, g)
e_phoff(buf, g) == RdU32(buf, 28, g)
e_shoff(buf, g) == RdU32(buf, 32, g)
e_phnum(buf, g) == RdU16(buf, 44, g)
e_shnum(buf, g) == RdU16(buf, 48, g)
e_shstrndx(buf, g) == RdU16(buf, 50, g)

\* ELF_PHR / ELF_SHR fields of the record at byte offset at
p_vaddr(buf, at, g) == RdU32(buf, at + 8, g)
p_memsz(buf, at, g) == RdU32(buf, at + 20, g)
sh_name(buf, at, g) == RdU32(buf, at, g)
sh_offset(buf, at, g) == RdU32(buf, at + 16, g)

\* PSXEXEHeader fields
PsxId(buf) == SubSeq(buf, 1, 8)
initial_pc(buf) == DecU32(buf, 16)
file_size(buf) == DecU32(buf, 28)
expected_id == <<80, 83, 45, 88, 32, 69, 88, 69>>

\* ------------------------------------------------------------ sample images
Bytes16(n) == <<n % 256, n \div 256>>
Bytes32(w) == Bytes16(w[2]) \o Bytes16(w[1])

Poke(off, bytes) == [off |-> off, bytes |-> bytes]

\* a buffer of len bytes, zero except where a poke writes
Build(len, pokes) ==
    [i \in 1..len |->
        LET hits == {p \in pokes : i - 1 >= p.off /\ i - 1 < p.off + Len(p.bytes)}
        IN  IF hits = {} THEN 0
            ELSE LET p == CHOOSE q \in hits : TRUE IN p.bytes[i - p.off]]

\* where the sample images keep their section-header records
ShBase == ElfHeaderSize + MaxPhNum * ElfPhrSize

\* an ELF image: header fields, program-header records phrs (<<p_vaddr,
\* p_memsz>>) laid out from offset 52, section-header records shrs
\* (<<sh_name, sh_offset>>) laid out from ShBase; what does not fit in len
\* bytes is cut off
ElfImage(len, entry, phoff, phnum, shoff, shnum, shstrndx, phrs, shrs) ==
    Build(len,
        { Poke(0, <<127, 69, 76, 70>>),
          Poke(24, Bytes32(entry)), Poke(28, Bytes32(phoff)),
          Poke(32, Bytes32(shoff)),
          Poke(42, Bytes16(ElfPhrSize)), Poke(44, Bytes16(phnum)),
          Poke(46, Bytes16(ElfShrSize)), Poke(48, Bytes16(shnum)),
          Poke(50, Bytes16(shstrndx)) }
        \cup { Poke(ElfHeaderSize + ElfPhrSize * (i - 1) + 8, Bytes32(phrs[i][1]))
                 : i \in 1..Len(phrs) }
        \cup { Poke(ElfHeaderSize + ElfPhrSize * (i - 1) + 20, Bytes32(phrs[i][2]))
                 : i \in 1..Len(phrs) }
        \cup { Poke(ShBase + ElfShrSize * (i - 1), Bytes32(shrs[i][1]))
                 : i \in 1..Len(shrs) }
        \cup { Poke(ShBase + ElfShrSize * (i - 1) + 16, Bytes32(shrs[i][2]))
                 : i \in 1..Len(shrs) })

\* a PS-X EXE image
PsxImage(len, id, pc, fsize) ==
    Build(len, { Poke(0, id), Poke(16, Bytes32(pc)), Poke(28, Bytes32(fsize)) })

Entry1 == U32(16, 0)          \* 0x00100000
Entry2 == U32(65535, 32768)   \* 0xFFFF8000
RecA == <<U32(16, 0), U32(0, 4096)>>       \* [0x00100000, 0x00101000)
RecB == <<U32(15, 61440), U32(0, 8192)>>   \* [0x000FF000, 0x00101000)
RecC == <<U32(15, 61440), U32(0, 4096)>>   \* [0x000FF000, 0x00100000)
RecD == <<U32(65535, 0), U32(2, 0)>>       \* [0xFFFF0000, 0x100010000)
RecE == <<U32(65535, 0), U32(0, 36864)>>   \* [0xFFFF0000, 0xFFFF9000)
RecF == <<U32(32, 0), U32(0, 4096)>>       \* [0x00200000, 0x00201000)

FarOff == U32(65535, 65520)                \* 0xFFFFFFF0

\* images that exercise the placement of the two tables: a table that ends
\* at the last byte, one byte later, far beyond, and more records than fit
TableLens == {ElfHeaderSize + 1, ElfHeaderSize + ElfPhrSize, ShBase + ElfShrSize}
TablePh ==
    { <<U32(0, ElfHeaderSize), 0>>, <<U32(0, ElfHeaderSize), 1>>,
      <<U32(0, ElfHeaderSize + 1), 1>>, <<FarOff, 1>>, <<U32(0, ElfHeaderSize), MaxPhNum>> }
TableSh ==
    { <<U32(0, ShBase), 0>>, <<U32(0, ShBase), 1>>, <<U32(0, ShBase + 1), 1>>, <<FarOff, 1>> }

TableImages ==
    { ElfImage(len, Entry1, t[1][1], t[1][2], t[2][1], t[2][2], 0,
               <<RecF, RecA>>, <<<<U32(0, 1), U32(0, 60)>>>>)
        : len \in TableLens,
          t \in (TablePh \X {<<U32(0, ShBase), 1>>})
                \cup ({<<U32(0, ElfHeaderSize), 0>>} \X TableSh) }

\* images that exercise the scan for the entry point
RangeImages ==
    { ElfImage(ShBase, e[1], U32(0, ElfHeaderSize), 2, Zero32, 0, 0, <<e[2], r>>, <<>>)
        : e \in { <<Entry1, RecA>>, <<Entry1, RecB>>, <<Entry1, RecC>>,
                  <<Entry2, RecD>>, <<Entry2, RecE>>, <<Entry2, RecC>> },
          r \in { RecA, RecE } }

\* images that exercise the section-header dump
SectionImages ==
    { ElfImage(len, Entry1, Zero32, 0, U32(0, ShBase), MaxShNum, ndx,
               <<>>, <<s, <<Zero32, Zero32>>>>)
        : len \in {ShBase + ElfShrSize, ShBase + ElfShrSize * MaxShNum},
          ndx \in {0, 1, 5, 65535},
          s \in { <<U32(0, 1), U32(0, 60)>>, <<Ones32, U32(0, ShBase + ElfShrSize - 1)>> } }

bad_id == <<80, 83, 45, 120, 32, 69, 88, 69>>

PsxImages ==
    { PsxImage(PsxHeaderSize, expected_id, U32(1, 0), Zero32),
      PsxImage(PsxHeaderSize, bad_id, U32(1, 0), Zero32),
      PsxImage(PsxHeaderSize - 1, expected_id, U32(1, 0), Zero32),
      PsxImage(PsxHeaderSize, expected_id, U32(32769, 0), U32(0, 4096)) }

\* short buffers, for the checksum
ShortImages ==
    { [i \in 1..len |-> (k * i) % 256] : len \in {0, 3, 4, 5, 8, 9}, k \in {1, 85} }

Images == TableImages \cup RangeImages \cup SectionImages \cup PsxImages \cup ShortImages

\* ------------------------------------------------------------ environment
\* what a path names at the time of a load: the size the byte source
\* reports and the bytes it delivers.  An oversized entry is kept without
\* its bytes; the loads below never get to read one.
Files ==
    { [size |-> Len(b), bytes |-> b] : b \in Images }
    \cup { [size |-> MaxElfSize + 1, bytes |-> <<>>] }

\* the path each loader is given
IsoPath == "cdrom0:\\SLUS_000.00;1"
HostPath == "host:boot.elf"

\* lengths handed to CheckElfSize directly
SizeSamples ==
    { -2147483647, -2, -1, 0, 1, ElfHeaderSize - 1, ElfHeaderSize, ElfHeaderSize + 1,
      MaxElfSize, MaxElfSize + 1, 2147483647 }

\* what an out-of-bounds read may find
Garbage == { Zero32, Ones32 }

\* number of loads tried on the one instance
MaxLoads == 2

\* ------------------------------------------------------------ state
VARIABLES
    data,       \* std::vector<u8> data
    filename,   \* std::string filename
    isPSXElf,   \* bool isPSXElf
    proghead,   \* ELF_PHR* proghead: NULL or the offset into data it was set to
    secthead,   \* ELF_SHR* secthead
    nloads,     \* loads tried so far
    res         \* the last call: its name, arguments, return value, error, reads

vars == <<data, filename, isPSXElf, proghead, secthead, nloads, res>>

NoRes ==
    [op |-> "new", arg |-> 0, psx |-> FALSE, ok |-> TRUE, v1 |-> Zero32, v2 |-> Zero32,
     err |-> "", reads |-> {}, fault |-> FALSE]

Init ==
    /\ data = <<>>
    /\ filename = ""
    /\ isPSXElf = FALSE
    /\ proghead = NULL
    /\ secthead = NULL
    /\ nloads = 0
    /\ res = NoRes

\* a read of n bytes at offset at of what: the ELF or PS-X header ("hdr"),
\* a program-header record ("ph"), a section-header record ("sh"), a section
\* name ("name"), the words of the checksum ("crc"); hung: made through a
\* pointer that a reallocation of data has left dangling
Read(what, at, n, hung) == [what |-> what, at |-> at, n |-> n, hung |-> hung]
BadRead(r, len) == r.hung \/ r.at + r.n > len
AnyBadRead(reads, len) == \E r \in reads : BadRead(r, len)

\* a call that makes a bad read may fault instead of returning, which ends
\* the run
Faults(reads) == IF AnyBadRead(reads, Len(data)) THEN BOOLEAN ELSE {FALSE}

\* what a stale view may turn out to be
Hung(view) == IF view.stale THEN BOOLEAN ELSE {FALSE}

\* the result of an accessor
Returned(op, ok, v1, v2, reads, fault) ==
    [NoRes EXCEPT !.op = op, !.ok = ok, !.v1 = v1, !.v2 = v2, !.reads = reads,
                  !.fault = fault]

Alive == ~res.fault

\* ------------------------------------------------------------ CheckElfSize
\* CheckElfSize with the header-size test off by one
CheckElfSize_lt(size) ==
    IF size > MaxElfSize THEN [ok |-> FALSE, err |-> "Illegal ELF file size over 2GB!"]
    ELSE IF size = -1 THEN [ok |-> FALSE, err |-> "ELF file does not exist!"]
    ELSE IF size < ElfHeaderSize THEN [ok |-> FALSE, err |-> "Unexpected end of ELF file."]
    ELSE [ok |-> TRUE, err |-> ""]

CheckElfSize(size) ==
    IF size > MaxElfSize THEN [ok |-> FALSE, err |-> "Illegal ELF file size over 2GB!"]
    ELSE IF size = -1 THEN [ok |-> FALSE, err |-> "ELF file does not exist!"]
    ELSE IF size <= ElfHeaderSize THEN [ok |-> FALSE, err |-> "Unexpected end of ELF file."]
    ELSE [ok |-> TRUE, err |-> ""]

CallCheckElfSize ==
    /\ Alive
    /\ nloads = 0
    /\ \E size \in SizeSamples :
          LET c == CheckElfSize(size)
          IN  res' = [NoRes EXCEPT !.op = "CheckElfSize", !.arg = size,
                                   !.ok = c.ok, !.err = c.err]
    /\ UNCHANGED <<data, filename, isPSXElf, proghead, secthead, nloads>>

\* ------------------------------------------------------------ InitElfHeaders
\* InitView with the bounds test off by one
InitView_lt(buf, off, num, recsize, old) ==
    IF num > 0 /\ FitsIn(off, recsize + 1, Len(buf))
    THEN [off |-> ToNat(off), stale |-> FALSE]
    ELSE old

\* the view InitElfHeaders leaves for a table of num records at offset off:
\* set when the first record fits, left as it was otherwise
InitView(buf, off, num, recsize, old) ==
    IF num > 0 /\ FitsIn(off, recsize, Len(buf))
    THEN [off |-> ToNat(off), stale |-> FALSE]
    ELSE old

\* (the loads reach it with more than 52 bytes in buf for an ELF image, so
\* the header reads are in bounds)
InitElfHeaders(buf, psx, ph, sh) ==
    IF psx THEN [proghead |-> ph, secthead |-> sh]
    ELSE [proghead |-> InitView(buf, e_phoff(buf, Zero32), e_phnum(buf, Zero32),
                                ElfPhrSize, ph),
          secthead |-> InitView(buf, e_shoff(buf, Zero32), e_shnum(buf, Zero32),
                                ElfShrSize, sh)]

\* ------------------------------------------------------------ loads
\* data.resize(n): the old bytes up to n, zero-filled beyond
Resized(old, n) == [i \in 1..n |-> IF i <= Len(old) THEN old[i] ELSE 0]

\* a view after data is resized to n: growing may reallocate the storage,
\* and the pointer then dangles
AfterResize(v, n) ==
    IF v = NULL THEN NULL ELSE [v EXCEPT !.stale = v.stale \/ n > Len(data)]

LoadRes(op, psx, ok, err) ==
    [NoRes EXCEPT !.op = op, !.psx = psx, !.ok = ok, !.err = err]

\* A failed load is terminal: the caller discards the instance.  Loads come
\* before the accessors, which leave the instance as it is.
CanLoad ==
    /\ Alive
    /\ nloads < MaxLoads
    /\ res.op \in {"new", "CheckElfSize", "OpenFile", "OpenIsoFile"}
    /\ res.op \in {"OpenFile", "OpenIsoFile"} => res.ok

\* the accessors are called on an instance that a load has populated
CanRead ==
    /\ Alive
    /\ nloads > 0
    /\ res.op \in {"OpenFile", "OpenIsoFile"} => res.ok

Populate(srcfile, psx, buf) ==
    LET h == InitElfHeaders(buf, psx, AfterResize(proghead, Len(buf)),
                            AfterResize(secthead, Len(buf)))
    IN  /\ data' = buf
        /\ filename' = srcfile
        /\ isPSXElf' = psx
        /\ proghead' = h.proghead
        /\ secthead' = h.secthead

Unpopulated == UNCHANGED <<data, filename, isPSXElf, proghead, secthead>>

OpenFile ==
    /\ CanLoad
    /\ nloads' = nloads + 1
    /\ \E srcfile \in {HostPath}, psx \in BOOLEAN :
          \/ \* the file cannot be opened, or its size cannot be had
             /\ res' = LoadRes("OpenFile", psx, FALSE, "Failed to read ELF")
             /\ Unpopulated
          \/ \E f \in Files :
                IF ~psx /\ ~CheckElfSize(f.size).ok
                THEN /\ res' = LoadRes("OpenFile", psx, FALSE, CheckElfSize(f.size).err)
                     /\ Unpopulated
                ELSE /\ f.size = Len(f.bytes)
                     /\ \/ \* fread delivers the whole file: one item of size bytes
                           /\ f.size > 0
                           /\ res' = LoadRes("OpenFile", psx, TRUE, "")
                           /\ Populate(srcfile, psx, f.bytes)
                        \/ \* fread comes back short (always so for an empty file)
                           /\ res' = LoadRes("OpenFile", psx, FALSE, "Failed to read ELF")
                           /\ data' = Resized(data, f.size)
                           /\ proghead' = AfterResize(proghead, f.size)
                           /\ secthead' = AfterResize(secthead, f.size)
                           /\ UNCHANGED <<filename, isPSXElf>>

\* IsoReader::ReadFile delivers the entry's bytes into data, or fails
IsoReadFile(f, readOk) ==
    IF readOk THEN [ok |-> TRUE, data |-> f.bytes] ELSE [ok |-> FALSE, data |-> data]

OpenIsoFile ==
    /\ CanLoad
    /\ nloads' = nloads + 1
    /\ \E srcfile \in {IsoPath}, psx \in BOOLEAN :
          \/ \* LocateFile finds no such entry
             /\ res' = LoadRes("OpenIsoFile", psx, FALSE, "File not found")
             /\ Unpopulated
          \/ \E f \in Files :
                IF ~CheckElfSize(f.size).ok
                THEN /\ res' = LoadRes("OpenIsoFile", psx, FALSE, CheckElfSize(f.size).err)
                     /\ Unpopulated
                ELSE \E readOk \in BOOLEAN :
                        LET rd == IsoReadFile(f, readOk)
                        IN  IF ~rd.ok
                            THEN /\ res' = LoadRes("OpenIsoFile", psx, FALSE, "Failed to read")
                                 /\ Unpopulated
                            ELSE /\ res' = LoadRes("OpenIsoFile", psx, TRUE, "")
                                 /\ Populate(srcfile, psx, rd.data)

\* ------------------------------------------------------------ accessors
\* HasValidPSXHeader rejecting a header whose file_size overruns the buffer
HasValidPSXHeader_sized(buf) ==
    IF Len(buf) < PsxHeaderSize THEN FALSE
    ELSE IF PsxId(buf) # expected_id THEN FALSE
    ELSE FitsIn(file_size(buf), PsxHeaderSize, Len(buf))

HasValidPSXHeader(buf) ==
    IF Len(buf) < PsxHeaderSize THEN FALSE
    ELSE IF PsxId(buf) # expected_id THEN FALSE
    ELSE TRUE   \* a file_size beyond the buffer only logs a warning

HasProgramHeaders == proghead # NULL
HasSectionHeaders == secthead # NULL
HasHeaders == HasProgramHeaders /\ HasSectionHeaders

CallHasHeaders ==
    /\ CanRead
    /\ res' = Returned("HasHeaders", HasHeaders, Zero32, Zero32, {}, FALSE)
    /\ UNCHANGED <<data, filename, isPSXElf, proghead, secthead, nloads>>

\* what the PS-X EXE branch reads of the buffer
PsxReads(buf) ==
    IF Len(buf) < PsxHeaderSize THEN {}
    ELSE {Read("hdr", 0, 8, FALSE)}
         \cup (IF PsxId(buf) = expected_id
               THEN {Read("hdr", 28, 4, FALSE), Read("hdr", 16, 4, FALSE)} ELSE {})

GetEntryPoint ==
    /\ CanRead
    /\ IF isPSXElf
       THEN res' = Returned("GetEntryPoint", TRUE,
                            IF HasValidPSXHeader(data) THEN initial_pc(data) ELSE Ones32,
                            Zero32, PsxReads(data), FALSE)
       ELSE \E g \in Garbage, fault \in Faults({Read("hdr", 24, 4, FALSE)}) :
               res' = Returned("GetEntryPoint", TRUE, e_entry(data, g), Zero32,
                               {Read("hdr", 24, 4, FALSE)}, fault)
    /\ UNCHANGED <<data, filename, isPSXElf, proghead, secthead, nloads>>

\* a u32 read through a view: m.hung says whether a stale view dangles,
\* m.a / m.b what a bad read finds
Dangles(view, m) == view.stale /\ m.hung
ViaView(view, m, g, val) == IF Dangles(view, m) THEN g ELSE val

\* the loop of GetTextRange from record i on
RECURSIVE ScanPh(_, _, _, _, _, _)
ScanPh(buf, view, entry, num, i, m) ==
    IF i >= num THEN [v1 |-> Zero32, v2 |-> Zero32, reads |-> {}]
    ELSE LET at == view.off + ElfPhrSize * i
             start == ViaView(view, m, m.a, p_vaddr(buf, at, m.a))
             size == ViaView(view, m, m.b, p_memsz(buf, at, m.b))
             rd == {Read("ph", at + 8, 4, Dangles(view, m)), Read("ph", at + 20, 4, Dangles(view, m))}
         IN  IF LeU32(start, entry) /\ LtU32(entry, AddU32(start, size))
             THEN [v1 |-> start, v2 |-> size, reads |-> rd]
             ELSE LET r == ScanPh(buf, view, entry, num, i + 1, m)
                  IN  [r EXCEPT !.reads = @ \cup rd]

TextRange(buf, psx, view, m) ==
    IF ~psx /\ view # NULL
    THEN LET r == ScanPh(buf, view, e_entry(buf, m.a), e_phnum(buf, m.a), 0, m)
         IN  [r EXCEPT !.reads = @ \cup {Read("hdr", 44, 2, FALSE), Read("hdr", 24, 4, FALSE)}]
    ELSE [v1 |-> Zero32, v2 |-> Zero32, reads |-> {}]

Oracles(view) == [a : Garbage, b : Garbage, hung : Hung(view)]

GetTextRange ==
    /\ CanRead
    /\ \E m \in Oracles(proghead) :
          LET r == TextRange(data, isPSXElf, proghead, m)
          IN  \E fault \in Faults(r.reads) :
                 res' = Returned("GetTextRange", TRUE, r.v1, r.v2, r.reads, fault)
    /\ UNCHANGED <<data, filename, isPSXElf, proghead, secthead, nloads>>

\* the loop of GetCRC: i words left, srcdata at byte offset src.  A run of i
\* iterations is its first half followed by the rest, started from the
\* value the first half ends with (the test on mid has the evaluator
\* compute it before going on, which keeps the evaluation shallow).
RECURSIVE CrcLoop(_, _, _, _)
CrcLoop(buf, i, src, crc) ==
    IF i = 0 THEN crc
    ELSE IF i = 1 THEN XorU32(crc, DecU32(buf, src))
    ELSE LET h == i \div 2
             mid == CrcLoop(buf, h, src, crc)
         IN  IF mid \in {mid} THEN CrcLoop(buf, i - h, src + 4 * h, mid) ELSE mid

\* GetCRC with a pre-decrement loop test, which drops the last word
CrcValue_predec(buf) ==
    CrcLoop(buf, IF Len(buf) \div 4 = 0 THEN 0 ELSE Len(buf) \div 4 - 1, 0, Zero32)

CrcValue(buf) == CrcLoop(buf, Len(buf) \div 4, 0, Zero32)

GetCRC ==
    /\ CanRead
    /\ res' = Returned("GetCRC", TRUE, CrcValue(data), Zero32,
                       IF Len(data) \div 4 = 0 THEN {}
                       ELSE {Read("crc", 0, 4 * (Len(data) \div 4), FALSE)}, FALSE)
    /\ UNCHANGED <<data, filename, isPSXElf, proghead, secthead, nloads>>

\* ------------------------------------------------------------ header dump
\* LoadProgramHeaders: the reads of its loop; log says whether ELF_LOG is on
ProgramHeaderReads(buf, view, log, m) ==
    IF view = NULL THEN {}
    ELSE {Read("hdr", 44, 2, FALSE)}
         \cup UNION { {Read("ph", view.off + ElfPhrSize * i, 4, Dangles(view, m))}
                      \cup (IF log THEN {Read("ph", view.off + ElfPhrSize * i, ElfPhrSize,
                                              Dangles(view, m))}
                            ELSE {})
                      : i \in 0..(e_phnum(buf, m.a) - 1) }

\* an address past every modelled buffer, for data.data() + a large u32
FarAway == 2 ^ 30

\* data.data() + a + b, taken in pointer width
NameAt(a, b) == IF Small(a) /\ Small(b) THEN ToNat(a) + ToNat(b) ELSE FarAway

\* the bytes "%s" reads at offset at: up to and including the first NUL
StringRead(buf, at) ==
    LET nuls == {j \in at..(Len(buf) - 1) : buf[j + 1] = 0}
    IN  IF nuls = {} THEN Read("name", at, IF at < Len(buf) THEN Len(buf) - at + 1 ELSE 1, FALSE)
        ELSE Read("name", at, (CHOOSE j \in nuls : \A k \in nuls : j <= k) - at + 1, FALSE)

\* LoadSectionHeaders: the reads it makes
SectionHeaderReads(buf, view, log, m) ==
    IF view = NULL \/ ~FitsIn(e_shoff(buf, m.a), 0, Len(buf)) THEN {}
    ELSE LET ndx == IF e_shstrndx(buf, m.a) = 65535 THEN 0 ELSE e_shstrndx(buf, m.a)
             strat == view.off + ElfShrSize * ndx + 16
             section_names_offset ==
                 ViaView(view, m, m.a, sh_offset(buf, view.off + ElfShrSize * ndx, m.a))
         IN  {Read("hdr", 32, 4, FALSE), Read("hdr", 50, 2, FALSE), Read("hdr", 48, 2, FALSE),
              Read("sh", strat, 4, Dangles(view, m))}
             \cup UNION { LET at == view.off + ElfShrSize * i
                          IN  {Read("sh", at + 4, 4, Dangles(view, m))}
                              \cup (IF log
                                    THEN {Read("sh", at, ElfShrSize, Dangles(view, m)),
                                          StringRead(buf, NameAt(section_names_offset,
                                              ViaView(view, m, m.b, sh_name(buf, at, m.b))))}
                                    ELSE {})
                          : i \in 0..(e_shnum(buf, m.a) - 1) }

LoadHeaders ==
    /\ CanRead
    /\ \E a, b \in Garbage, hp \in Hung(proghead), hs \in Hung(secthead), log \in BOOLEAN :
          LET reads == IF isPSXElf THEN {}
                       ELSE ProgramHeaderReads(data, proghead, log,
                                               [a |-> a, b |-> b, hung |-> hp])
                            \cup SectionHeaderReads(data, secthead, log,
                                                    [a |-> a, b |-> b, hung |-> hs])
          IN  \E fault \in Faults(reads) :
                 res' = Returned("LoadHeaders", TRUE, Zero32, Zero32, reads, fault)
    /\ UNCHANGED <<data, filename, isPSXElf, proghead, secthead, nloads>>

Next ==
    \/ OpenFile
    \/ OpenIsoFile
    \/ CallCheckElfSize
    \/ CallHasHeaders
    \/ GetEntryPoint
    \/ GetTextRange
    \/ GetCRC
    \/ LoadHeaders

Spec == Init /\ [][Next]_vars

\* ------------------------------------------------------------ properties
LoadOps == {"OpenFile", "OpenIsoFile"}
SizeErrors ==
    { "Illegal ELF file size over 2GB!", "ELF file does not exist!",
      "Unexpected end of ELF file." }
LoadFailed == res.op \in LoadOps /\ ~res.ok
\* the instance holds the image of a successful load
Loaded == nloads > 0 /\ ~LoadFailed

\* header fields of the loaded buffer, decoded byte by byte
Byte(i) == data[i + 1]
Half16(i) == Byte(i) + 256 * Byte(i + 1)
Word32(i) == <<Half16(i + 2), Half16(i)>>
\* off + n <= buffer length, for a 32-bit off (buffers are shorter than 2^16)
Within(off, n) == off[1] = 0 /\ off[2] + n <= Len(data)

\* C1: after a successful ELF-format load into a fresh instance,
\* HasProgramHeaders() is true exactly when e_phnum is nonzero and
\* e_phoff + 32 <= buffer length, HasSectionHeaders() exactly when e_shnum is
\* nonzero and e_shoff + 40 <= buffer length; the load has reported success.
C1_ViewsMatchHeader ==
    (nloads = 1 /\ Loaded /\ ~isPSXElf) =>
        /\ HasProgramHeaders <=> (Half16(44) # 0 /\ Within(Word32(28), 32))
        /\ HasSectionHeaders <=> (Half16(48) # 0 /\ Within(Word32(32), 40))
        /\ HasProgramHeaders => proghead.off = Word32(28)[2]
        /\ HasSectionHeaders => secthead.off = Word32(32)[2]

\* C1 witness: a load that succeeded although the program-header table lies
\* outside the buffer, and one whose table ends exactly at the last byte
C1_Witness ==
    /\ nloads = 1 /\ res.op \in LoadOps /\ res.ok /\ ~isPSXElf
    /\ Half16(44) # 0 /\ Half16(48) # 0
    /\ ~Within(Word32(28), 32) /\ ~HasProgramHeaders
    /\ Word32(32)[2] + 40 = Len(data) /\ HasSectionHeaders

\* C2: GetTextRange() reads program-header records only inside the buffer:
\* no byte at an index >= the buffer length is read.
C2_TextRangeReadsInside ==
    res.op = "GetTextRange" => \A r \in res.reads : ~BadRead(r, Len(data))

\* entry lies in [start, start + size), the sum not reduced modulo 2^32
SubU32(a, b) ==
    LET lo == a[2] - b[2]
        hi == a[1] - b[1] - (IF lo < 0 THEN 1 ELSE 0)
    IN  U32(hi % Half, lo % Half)
Contains(start, size, entry) == LeU32(start, entry) /\ LtU32(SubU32(entry, start), size)

\* C3: for an ELF image with program headers present GetTextRange() returns
\* (p_vaddr, p_memsz) of the lowest-index record whose interval
\* [p_vaddr, p_vaddr + p_memsz) contains e_entry, for all 32-bit values; and
\* (0, 0) when there is none, when the view is absent, or for a console
\* executable.  (Stated for images whose e_phnum records all lie in the
\* buffer, read through a view set by the load itself.)
C3_TextRangeIsFirstContaining ==
    res.op = "GetTextRange" =>
        IF isPSXElf \/ proghead = NULL
        THEN res.v1 = Zero32 /\ res.v2 = Zero32
        ELSE (~proghead.stale /\ proghead.off + ElfPhrSize * Half16(44) <= Len(data)) =>
             LET at(i) == proghead.off + ElfPhrSize * i
                 hits == {i \in 0..(Half16(44) - 1) :
                             Contains(Word32(at(i) + 8), Word32(at(i) + 20), Word32(24))}
             IN  IF hits = {} THEN res.v1 = Zero32 /\ res.v2 = Zero32
                 ELSE LET i == CHOOSE j \in hits : \A k \in hits : j <= k
                      IN  res.v1 = Word32(at(i) + 8) /\ res.v2 = Word32(at(i) + 20)

\* C4: for a console executable GetEntryPoint() returns the initial_pc field
\* exactly when the buffer has at least 2048 bytes and begins with
\* "PS-X EXE", whatever file_size says, and 0xFFFFFFFF otherwise; for an ELF
\* image it returns e_entry.
C4_EntryPoint ==
    (res.op = "GetEntryPoint" /\ ~res.fault) =>
        IF isPSXElf
        THEN IF Len(data) >= 2048
                /\ <<Byte(0), Byte(1), Byte(2), Byte(3), Byte(4), Byte(5), Byte(6), Byte(7)>>
                     = <<80, 83, 45, 88, 32, 69, 88, 69>>
             THEN res.v1 = Word32(16)
             ELSE res.v1 = <<65535, 65535>>
        ELSE res.v1 = Word32(24)

\* C4 witness: a valid console header whose file_size + 2048 exceeds the
\* buffer, and the entry point returned is its initial_pc
C4_Witness ==
    /\ res.op = "GetEntryPoint" /\ isPSXElf
    /\ Len(data) = 2048 /\ Word32(28) # <<0, 0>>
    /\ res.v1 = Word32(16) /\ res.v1 # <<65535, 65535>>

\* C5: a console-executable load from a disc image is never rejected by the
\* size check, whatever the entry's declared length.
C5_IsoPsxNotSizeChecked ==
    (res.op = "OpenIsoFile" /\ res.psx) => res.err \notin SizeErrors

\* C6 (as claimed): for every length L <= 52 the size check rejects with
\* "Unexpected end of ELF file".
C6_AllShortTruncated ==
    (res.op = "CheckElfSize" /\ res.arg <= 52) =>
        ~res.ok /\ res.err = "Unexpected end of ELF file."

\* C6 (amended): every length L <= 52 is rejected; with "Unexpected end of
\* ELF file" for every such L other than -1, and with "ELF file does not
\* exist!" for L = -1.
C6_ShortRejected ==
    (res.op = "CheckElfSize" /\ res.arg <= 52) =>
        /\ ~res.ok
        /\ res.arg # -1 => res.err = "Unexpected end of ELF file."
        /\ res.arg = -1 => res.err = "ELF file does not exist!"

\* C6 witness: the length 52 itself, rejected as truncated
C6_Witness ==
    res.op = "CheckElfSize" /\ res.arg = 52 /\ ~res.ok
    /\ res.err = "Unexpected end of ELF file."

\* C7: a failing load leaves the instance unpopulated: on a fresh instance
\* the buffer is still empty, filename and the format flag are unchanged and
\* both views are absent.
C7_FailedLoadLeavesEmpty ==
    (nloads = 1 /\ LoadFailed) =>
        /\ data = <<>>
        /\ filename = ""
        /\ isPSXElf = FALSE
        /\ proghead = NULL /\ secthead = NULL

\* C8: the section-header dump reads secthead[e_shstrndx], every
\* secthead[i] with i < e_shnum and every name byte inside the buffer.
C8_SectionDumpReadsInside ==
    res.op = "LoadHeaders" =>
        \A r \in res.reads : r.what \in {"sh", "name"} => ~BadRead(r, Len(data))

\* bit k of n
Bit(n, k) == (n \div (2 ^ k)) % 2
\* whether the words 0 .. nwords-1 of the buffer with bit k of the 16-bit
\* half at byte offset h set are odd in number
OddOnes(nwords, h, k) ==
    Cardinality({w \in 0..(nwords - 1) : Bit(Half16(4 * w + h), k) = 1}) % 2

C10_ViewsFollowBuffer ==
    /\ proghead # NULL =>
          ~proghead.stale /\ proghead.off + ElfPhrSize <= Len(data)
    /\ secthead # NULL =>
          ~secthead.stale /\ secthead.off + ElfShrSize <= Len(data)
    /\ isPSXElf => proghead = NULL /\ secthead = NULL

====
